---- MODULE Spec2Model ----
(***************************************************************************)
(* The generic finite state machine (FSM) of                               *)
(* packages/core/src/common/finite-state-machine.ts and the order state    *)
(* machine built on it                                                     *)
(* (packages/core/src/service/helpers/order-state-machine).                *)
(*                                                                         *)
(* JavaScript values are encoded as strings: "undefined", "true", "false"  *)
(* stand for undefined, true and false; every other string is a JavaScript *)
(* string.  An async function is cut at its awaits: one action is the code *)
(* that runs between two suspension points.                                *)
(***************************************************************************)
EXTENDS Integers, Sequences, FiniteSets

\* ------------------------------------------------------------------ bounds
NumCalls == 2        \* call slots (callers whose calls may be in flight)
MaxEmit == 2         \* values an Observable guard result emits at most
MaxClock == 4        \* readings of the clock (one per adapter transition call)

Calls == 1..NumCalls
\* The caller of the sequential specifications, and the engine instance the
\* engine specification works on.
Caller == CHOOSE c \in Calls : \A d \in Calls : c <= d
TheFsm == Caller

LineCounts == {0, 1} \* order.lines.length of the order under test

Undefined == "undefined"
Messages == {"", "not-allowed"}
GuardValues == {Undefined, "true", "false"} \cup Messages

VARIABLES
    config,             \* StateMachineConfig: transitions and the three callbacks
    currentState,       \* FSM._currentState, per engine instance
    initialState,       \* FSM._initialState, per engine instance
    call,               \* per caller: the operation it invoked last and where it stands
    order,              \* the Order entity handed to OrderStateMachine.transition
    orderProcessStrategy, \* configService.orderOptions.orderProcessStrategy: its hooks
    process,            \* configService.orderOptions.process: its hooks
    now,                \* the clock read by new Date()
    toOf,               \* the entry objects of the graphs: each one's `to` array
    baseGraph,          \* the module-level orderStateTransitions object: key -> entry object
    customGraph,        \* orderOptions.process.transitions: <<>> or <<key -> entry object>>
    builds              \* the mergeTransitionDefinitions calls so far: inputs and result

\* The graph objects that configuration builds share.
graphs == <<toOf, baseGraph, customGraph, builds>>

vars == <<config, currentState, initialState, call, order, orderProcessStrategy, process, now,
          graphs>>

\* ------------------------------------------------------------ plain values
NoRes == [kind |-> "none", vals |-> <<>>, done |-> FALSE]
NoErr == [name |-> "none", message |-> "", fromState |-> "", toState |-> ""]
NoArgs == [fromState |-> "", toState |-> "", message |-> Undefined]

\* One callback or service invocation, with the engine's and the entity's state
\* at the moment it happens.
Ev(name, fromState, toState, message, cur) ==
    [ev |-> name, from |-> fromState, to |-> toState, msg |-> message,
     cur |-> cur, state |-> order.state]

IdleCall ==
    [op |-> "none", pc |-> "idle", sub |-> "none", state |-> "", res |-> NoRes,
     resolved |-> Undefined, val |-> Undefined, args |-> NoArgs, err |-> NoErr, log |-> <<>>,
     outcome |-> "pending", pre |-> [cur |-> "", order |-> <<>>], tpc |-> "idle"]

\* A truthiness test in place of the typeof test: the empty string slips through.
IsString_truthy(v) == v \notin {Undefined, "true", "false", ""}

\* typeof v === 'string'
IsString(v) == v \notin {Undefined, "true", "false"}

\* What a guard hook may return: a plain value, a pending Promise, or an
\* Observable that has not emitted yet.
ValueResult(v) == [kind |-> "value", vals |-> <<v>>, done |-> TRUE]
StartResults ==
    {ValueResult(v) : v \in GuardValues}
        \cup {[kind |-> "promise", vals |-> <<>>, done |-> FALSE],
              [kind |-> "observable", vals |-> <<>>, done |-> FALSE]}

\* await (r instanceof Observable ? await r.toPromise() : r): toPromise resolves
\* with the last value emitted before completion, undefined when there is none.
Resolve(res) ==
    IF res.kind = "observable"
    THEN IF Len(res.vals) = 0 THEN Undefined ELSE res.vals[Len(res.vals)]
    ELSE res.vals[1]

\* A guard result once the await has taken its value: what it was is all that
\* is kept of it.
Consumed(res) == [kind |-> res.kind, vals |-> <<>>, done |-> TRUE]

\* ------------------------------------------ the order state machine's callbacks
OrderHooks == {"onTransitionStart", "onTransitionEnd", "onTransitionError"}

\* order-state.ts: the default order process.
orderStateTransitions ==
    [AddingItems |-> [to |-> <<"ArrangingPayment", "Cancelled">>],
     ArrangingPayment |-> [to |-> <<"PaymentAuthorized", "PaymentSettled", "AddingItems", "Cancelled">>],
     PaymentAuthorized |-> [to |-> <<"PaymentSettled", "Cancelled">>],
     PaymentSettled |-> [to |-> <<"PartiallyFulfilled", "Fulfilled", "Cancelled">>],
     PartiallyFulfilled |-> [to |-> <<"Fulfilled", "PartiallyFulfilled", "Cancelled">>],
     Fulfilled |-> [to |-> <<"Cancelled">>],
     Cancelled |-> [to |-> <<>>]]

\* A custom process definition as a plugin supplies it: one custom state.
CustomTransitions ==
    [AddingItems |-> [to |-> <<"Validating">>],
     Validating |-> [to |-> <<"ArrangingPayment", "AddingItems">>]]

\* The override's destinations taking the place of the base's.
MergedTo_replaced(to, customTo) == customTo

\* merged[key].to.concat(customTranstitions[key].to) (l.149)
MergedTo(to, customTo) == to \o customTo

\* mergeTransitionDefinitions (l.138-155) of one configuration build; custom is
\* <<>> for undefined, else <<the custom transitions>>.
mergeTransitionDefinitions(defaultTranstions, customTranstitions) ==
    IF customTranstitions = <<>>
    THEN defaultTranstions
    ELSE LET custom == customTranstitions[1]
         IN  [key \in DOMAIN defaultTranstions \cup DOMAIN custom |->
                IF key \in DOMAIN defaultTranstions
                THEN IF key \in DOMAIN custom
                     THEN [to |-> MergedTo(defaultTranstions[key].to, custom[key].to)]
                     ELSE defaultTranstions[key]
                ELSE custom[key]]

\* The message dropped: every failure carries the generic text.
MessageOrDefault_ignored(message) == "error.cannot-transition-order-from-to"

\* message || 'error.cannot-transition-order-from-to' (l.127)
MessageOrDefault(message) ==
    IF message \in {Undefined, ""} THEN "error.cannot-transition-order-from-to" ELSE message

\* new IllegalOperationError(message || ..., { fromState, toState }) (l.127-130)
IllegalOperationError(message, fromState, toState) ==
    [name |-> "IllegalOperationError", message |-> MessageOrDefault(message),
     fromState |-> fromState, toState |-> toState]

\* A configuration-level hook called without await (l.117, l.125): the call and,
\* for a hook that returns no promise, its completion before the next statement.
\* The promise of an async hook settles later (process_hook_settles).
Unawaited(name, settled, fromState, toState, message, cur) ==
    IF process.async
    THEN <<Ev(name, fromState, toState, message, cur)>>
    ELSE <<Ev(name, fromState, toState, message, cur),
           Ev(settled, fromState, toState, message, cur)>>

\* An onError that calls the hooks and forgets to throw.
initConfig_onError_silent(fromState, toState, message, cur) ==
    [sub |-> "done", err |-> NoErr,
     log |-> IF "onTransitionError" \in orderProcessStrategy
             THEN <<Ev("strategy.onTransitionError", fromState, toState, message, cur)>>
             ELSE IF "onTransitionError" \in process.hooks
             THEN Unawaited("process.onTransitionError", "process.onTransitionError.settled",
                            fromState, toState, message, cur)
             ELSE <<>>]

\* The config's onError (l.121-131) up to its first await or its throw.
initConfig_onError(fromState, toState, message, cur) ==
    IF "onTransitionError" \in orderProcessStrategy
    THEN [sub |-> "strategyError", err |-> NoErr,
          log |-> <<Ev("strategy.onTransitionError", fromState, toState, message, cur)>>]
    ELSE [sub |-> "failed", err |-> IllegalOperationError(message, fromState, toState),
          log |-> IF "onTransitionError" \in process.hooks
                  THEN Unawaited("process.onTransitionError",
                                 "process.onTransitionError.settled",
                                 fromState, toState, message, cur)
                  ELSE <<>>]

\* The two checks of the built-in rule in the other order.
onTransitionStart_customerFirst(fromState, toState, ord) ==
    IF toState = "ArrangingPayment"
    THEN IF ~ord.customer
         THEN "error.cannot-transition-to-payment-without-customer"
         ELSE IF ord.lines = 0
              THEN "error.cannot-transition-to-payment-when-order-is-empty"
              ELSE Undefined
    ELSE Undefined

\* OrderStateMachine.onTransitionStart (l.52-61): the built-in rule.
onTransitionStart(fromState, toState, ord) ==
    IF toState = "ArrangingPayment"
    THEN IF ord.lines = 0
         THEN "error.cannot-transition-to-payment-when-order-is-empty"
         ELSE IF ~ord.customer
              THEN "error.cannot-transition-to-payment-without-customer"
              ELSE Undefined
    ELSE Undefined

\* The configuration-level guard asked before the strategy's.
initConfig_onTransitionStart_processFirst(fromState, toState) ==
    IF "onTransitionStart" \in process.hooks
    THEN [sub |-> "hook", choices |-> StartResults,
          log |-> <<Ev("process.onTransitionStart", fromState, toState, Undefined, fromState)>>]
    ELSE IF "onTransitionStart" \in orderProcessStrategy
    THEN [sub |-> "hook", choices |-> StartResults,
          log |-> <<Ev("strategy.onTransitionStart", fromState, toState, Undefined, fromState)>>]
    ELSE [sub |-> "hook", choices |-> {ValueResult(Undefined)}, log |-> <<>>]

\* The config's onTransitionStart (l.100-106) up to its await of l.107.
initConfig_onTransitionStart(fromState, toState) ==
    IF "onTransitionStart" \in orderProcessStrategy
    THEN [sub |-> "hook", choices |-> StartResults,
          log |-> <<Ev("strategy.onTransitionStart", fromState, toState, Undefined, fromState)>>]
    ELSE IF "onTransitionStart" \in process.hooks
    THEN [sub |-> "hook", choices |-> StartResults,
          log |-> <<Ev("process.onTransitionStart", fromState, toState, Undefined, fromState)>>]
    ELSE [sub |-> "hook", choices |-> {ValueResult(Undefined)}, log |-> <<>>]

\* An early return once the order is cancelled: no history entry for Cancelled.
onTransitionEnd_history_earlyReturn(fromState, toState, ord, cur) ==
    IF toState = "Cancelled"
    THEN [sub |-> "done", ord |-> [ord EXCEPT !.active = FALSE], log |-> <<>>]
    ELSE [sub |-> "history", ord |-> ord,
          log |-> <<Ev("createHistoryEntryForOrder", fromState, toState, Undefined, cur)>>]

\* OrderStateMachine.onTransitionEnd (l.66-85) from l.73, once the stock and
\* promotion calls are behind it.
onTransitionEnd_history(fromState, toState, ord, cur) ==
    [sub |-> "history",
     ord |-> IF toState = "Cancelled" THEN [ord EXCEPT !.active = FALSE] ELSE ord,
     log |-> <<Ev("createHistoryEntryForOrder", fromState, toState, Undefined, cur)>>]

\* The placement effects for PaymentSettled alone.
onTransitionEnd_settledOnly(fromState, toState, ord, cur) ==
    IF toState = "PaymentSettled"
    THEN [sub |-> "stock",
          ord |-> [ord EXCEPT !.active = FALSE, !.orderPlacedAt = now],
          log |-> <<Ev("createSalesForOrder", fromState, toState, Undefined, cur)>>]
    ELSE onTransitionEnd_history(fromState, toState, ord, cur)

\* OrderStateMachine.onTransitionEnd (l.66-85) up to its first await.
onTransitionEnd(fromState, toState, ord, cur) ==
    IF toState = "PaymentAuthorized" \/ toState = "PaymentSettled"
    THEN [sub |-> "stock",
          ord |-> [ord EXCEPT !.active = FALSE, !.orderPlacedAt = now],
          log |-> <<Ev("createSalesForOrder", fromState, toState, Undefined, cur)>>]
    ELSE onTransitionEnd_history(fromState, toState, ord, cur)

\* The config's onTransitionEnd (l.113-120) up to its first await.
initConfig_onTransitionEnd(fromState, toState, cur) ==
    IF "onTransitionEnd" \in orderProcessStrategy
    THEN [sub |-> "strategyEnd", ord |-> order,
          log |-> <<Ev("strategy.onTransitionEnd", fromState, toState, Undefined, cur)>>]
    ELSE LET b == onTransitionEnd(fromState, toState, order, cur)
         IN  [sub |-> b.sub, ord |-> b.ord,
              log |-> (IF "onTransitionEnd" \in process.hooks
                       THEN Unawaited("process.onTransitionEnd", "process.onTransitionEnd.settled",
                                      fromState, toState, Undefined, cur)
                       ELSE <<>>) \o b.log]

\* --------------------------------------------------------------- the engine
getNextStates(e) == config.transitions[currentState[e]].to

IndexOf(seq, x) ==
    IF \E i \in 1..Len(seq) : seq[i] = x
    THEN (CHOOSE i \in 1..Len(seq) : seq[i] = x /\ \A j \in 1..(i - 1) : seq[j] # x) - 1
    ELSE 0 - 1

\* indexOf compared with 0: the first destination of the list is missed.
LegalFrom_offByOne(cur, state) == 0 < IndexOf(config.transitions[cur].to, state)

\* A membership test that asks whether the target is a state of the graph at all.
LegalFrom_anyState(cur, state) == state \in DOMAIN config.transitions

LegalFrom(cur, state) == (0 - 1) < IndexOf(config.transitions[cur].to, state)

canTransitionTo(e, state) == LegalFrom(currentState[e], state)

\* FSM.onError (l.112-116) up to its await: the synchronous part of config.onError.
onError(fromState, toState, message, cur) ==
    CASE config.onError = "none" ->
            [sub |-> "done", err |-> NoErr, log |-> <<>>]
      [] config.onError = "stub" ->
            [sub |-> "done", err |-> NoErr,
             log |-> <<Ev("onError", fromState, toState, message, cur)>>]
      [] config.onError = "order" ->
            initConfig_onError(fromState, toState, message, cur)

\* `await this.onError(this._currentState, state, message)` (l.71, l.74, l.86):
\* the call's record once onError has been invoked.
Rejected(rec, cur, state, message) ==
    LET r == onError(cur, state, message, cur)
    IN  [rec EXCEPT !.pc = "error", !.sub = r.sub, !.err = r.err, !.outcome = "rejected",
                    !.args = [fromState |-> cur, toState |-> state, message |-> message],
                    !.log = @ \o r.log]

\* The commit left out: _currentState keeps its value.
CommitState_skipped(cur, state) == cur

\* The state the engine holds after the commit of l.80.
CommitState(cur, state) == state

\* l.78-84: fromState = _currentState; _currentState = state; then the synchronous
\* part of config.onTransitionEnd(fromState, state, data).  The call's record and
\* the entity afterwards.
Committed(rec, cur, state) ==
    IF config.onTransitionEnd = "none"
    THEN [rec |-> [rec EXCEPT !.pc = "returned", !.outcome = "committed"], ord |-> order]
    ELSE LET fromState == cur
             r == IF config.onTransitionEnd = "stub"
                  THEN [sub |-> "done", ord |-> order,
                        log |-> <<Ev("onTransitionEnd", fromState, state, Undefined,
                                     CommitState(cur, state))>>]
                  ELSE initConfig_onTransitionEnd(fromState, state, CommitState(cur, state))
         IN  [rec |-> [rec EXCEPT !.pc = "end", !.sub = r.sub, !.outcome = "committed",
                                  !.args = [fromState |-> fromState, toState |-> state,
                                            message |-> Undefined],
                                  !.log = @ \o r.log],
              ord |-> r.ord]

\* The synchronous part of config.onTransitionStart(this._currentState, state, data)
\* (l.66): what is logged and which results it may hand back.
StartInvoked(cur, state) ==
    IF config.onTransitionStart = "stub"
    THEN [sub |-> "result", choices |-> StartResults,
          log |-> <<Ev("onTransitionStart", cur, state, Undefined, cur)>>]
    ELSE initConfig_onTransitionStart(cur, state)

\* transitionTo (l.61-88) from its entry to its first await, on an engine whose
\* _currentState is cur; rec0 is the fresh record of the call.
TransitionToBody(c, e, cur, state, rec0) ==
    IF LegalFrom(cur, state)
    THEN IF config.onTransitionStart # "none"
         THEN LET s == StartInvoked(cur, state)
              IN  /\ \E r \in s.choices :
                        call' = [call EXCEPT ![c] =
                                    [rec0 EXCEPT !.pc = "start", !.sub = s.sub, !.res = r,
                                                 !.args = [fromState |-> cur, toState |-> state,
                                                           message |-> Undefined],
                                                 !.log = @ \o s.log]]
                  /\ currentState' = [currentState EXCEPT ![e] = cur]
                  /\ order' = order
         ELSE LET k == Committed(rec0, cur, state)
              IN  /\ call' = [call EXCEPT ![c] = k.rec]
                  /\ currentState' = [currentState EXCEPT ![e] = CommitState(cur, state)]
                  /\ order' = k.ord
    ELSE /\ call' = [call EXCEPT ![c] = Rejected(rec0, cur, state, Undefined)]
         /\ currentState' = [currentState EXCEPT ![e] = cur]
         /\ order' = order

Free(c) == call[c].pc \in {"idle", "returned", "threw"} /\ call[c].tpc # "await"

\* FSM.transitionTo(state, data) called by caller c on engine e.
transitionTo(c, e, state) ==
    /\ Free(c)
    /\ TransitionToBody(c, e, currentState[e], state,
            [IdleCall EXCEPT !.op = "transitionTo", !.state = state,
                             !.pre = [cur |-> currentState[e], order |-> order]])
    /\ UNCHANGED <<graphs, config, initialState, orderProcessStrategy, process, now>>

\* An engine that goes on at the first value of the source, completed or not.
GuardSettled_firstValue(rec) ==
    IF config.onTransitionStart = "stub"
    THEN rec.res.done \/ rec.res.vals # <<>>
    ELSE rec.sub = "settled"

\* The guard's result as the engine's await of l.67-69 sees it.
GuardSettled(rec) ==
    IF config.onTransitionStart = "stub" THEN rec.res.done ELSE rec.sub = "settled"

GuardValue(rec) ==
    IF config.onTransitionStart = "stub" THEN Resolve(rec.res) ELSE rec.val

\* transitionTo after the await of l.67: l.70-84.
transitionTo_resume(c, e) ==
    /\ call[c].pc = "start"
    /\ GuardSettled(call[c])
    /\ LET canTransition == GuardValue(call[c])
           cur == currentState[e]
           state == call[c].state
           \* the settled result is consumed: canTransition is all that is kept
           rec == [call[c] EXCEPT !.val = canTransition, !.res = Consumed(@)]
       IN  IF canTransition = "false"
           THEN /\ call' = [call EXCEPT ![c] = Rejected(rec, cur, state, Undefined)]
                /\ UNCHANGED <<currentState, order>>
           ELSE IF IsString(canTransition)
           THEN /\ call' = [call EXCEPT ![c] = Rejected(rec, cur, state, canTransition)]
                /\ UNCHANGED <<currentState, order>>
           ELSE LET k == Committed(rec, cur, state)
                IN  /\ call' = [call EXCEPT ![c] = k.rec]
                    /\ currentState' = [currentState EXCEPT ![e] = CommitState(cur, state)]
                    /\ order' = k.ord
    /\ UNCHANGED <<graphs, config, initialState, orderProcessStrategy, process, now>>

\* transitionTo after the await of l.71, l.74, l.83 or l.86: the awaited callback
\* has returned (the call returns) or thrown (the call throws).
transitionTo_return(c) ==
    /\ call[c].pc \in {"end", "error"}
    /\ call[c].sub \in {"done", "failed"}
    /\ call' = [call EXCEPT ![c].pc = IF call[c].sub = "done" THEN "returned" ELSE "threw"]
    /\ UNCHANGED <<graphs, config, currentState, initialState, order, orderProcessStrategy, process, now>>

\* A jumpTo that respects the graph: it moves only where transitionTo could.
jumpTo_checked(c, e, state) ==
    /\ Free(c)
    /\ currentState' = [currentState EXCEPT ![e] = IF canTransitionTo(e, state) THEN state ELSE @]
    /\ call' = [call EXCEPT ![c] =
                   [IdleCall EXCEPT !.op = "jumpTo", !.pc = "returned", !.state = state,
                                    !.pre = [cur |-> currentState[e], order |-> order]]]
    /\ UNCHANGED <<graphs, config, initialState, order, orderProcessStrategy, process, now>>

\* FSM.jumpTo(state) (l.94-96) called by caller c on engine e.
jumpTo(c, e, state) ==
    /\ Free(c)
    /\ currentState' = [currentState EXCEPT ![e] = state]
    /\ call' = [call EXCEPT ![c] =
                   [IdleCall EXCEPT !.op = "jumpTo", !.pc = "returned", !.state = state,
                                    !.pre = [cur |-> currentState[e], order |-> order]]]
    /\ UNCHANGED <<graphs, config, initialState, order, orderProcessStrategy, process, now>>

\* true and false as the model writes them.
Bool(b) == IF b THEN "true" ELSE "false"

\* FSM.canTransitionTo(state) (l.108-110) called by caller c on engine e.
canTransitionTo_query(c, e, state) ==
    /\ Free(c)
    /\ call' = [call EXCEPT ![c] =
                   [IdleCall EXCEPT !.op = "canTransitionTo", !.pc = "returned", !.state = state,
                                    !.val = Bool(canTransitionTo(e, state)),
                                    !.pre = [cur |-> currentState[e], order |-> order]]]
    /\ UNCHANGED <<graphs, config, currentState, initialState, order, orderProcessStrategy, process, now>>

\* -------------------------------------------- the guard hook's result settles
Awaited(c) == call[c].pc = "start" /\ call[c].sub \in {"result", "hook"}

promiseResolves(c, v) ==
    /\ Awaited(c)
    /\ call[c].res.kind = "promise"
    /\ ~call[c].res.done
    /\ call' = [call EXCEPT ![c].res = [@ EXCEPT !.vals = <<v>>, !.done = TRUE]]
    /\ UNCHANGED <<graphs, config, currentState, initialState, order, orderProcessStrategy, process, now>>

observableNext(c, v) ==
    /\ Awaited(c)
    /\ call[c].res.kind = "observable"
    /\ ~call[c].res.done
    /\ Len(call[c].res.vals) < MaxEmit
    /\ call' = [call EXCEPT ![c].res = [@ EXCEPT !.vals = Append(@, v)]]
    /\ UNCHANGED <<graphs, config, currentState, initialState, order, orderProcessStrategy, process, now>>

observableComplete(c) ==
    /\ Awaited(c)
    /\ call[c].res.kind = "observable"
    /\ ~call[c].res.done
    /\ call' = [call EXCEPT ![c].res = [@ EXCEPT !.done = TRUE]]
    /\ UNCHANGED <<graphs, config, currentState, initialState, order, orderProcessStrategy, process, now>>

\* ------------------------------------------------- the order state machine
\* The config's onTransitionStart after its await of l.107: l.108-111.
initConfig_onTransitionStart_resume(c) ==
    /\ call[c].pc = "start"
    /\ call[c].sub = "hook"
    /\ call[c].res.done
    /\ LET resolvedResult == Resolve(call[c].res)
           a == call[c].args
       IN  call' = [call EXCEPT
                ![c].sub = "settled",
                ![c].res = Consumed(@),
                ![c].resolved = resolvedResult,
                ![c].val = IF resolvedResult = "false" \/ IsString(resolvedResult)
                           THEN resolvedResult
                           ELSE onTransitionStart(a.fromState, a.toState, order),
                ![c].log = IF resolvedResult = "false" \/ IsString(resolvedResult)
                           THEN @
                           ELSE Append(@, Ev("this.onTransitionStart", a.fromState, a.toState,
                                             Undefined, a.fromState))]
    /\ UNCHANGED <<graphs, config, currentState, initialState, order, orderProcessStrategy, process, now>>

\* The config's onTransitionEnd after its await of the strategy's hook (l.115):
\* l.119 and the built-in onTransitionEnd up to its first await.
initConfig_onTransitionEnd_resume(c) ==
    /\ call[c].pc = "end"
    /\ call[c].sub = "strategyEnd"
    /\ LET a == call[c].args
           b == onTransitionEnd(a.fromState, a.toState, order, currentState[c])
           done == Ev("strategy.onTransitionEnd.settled", a.fromState, a.toState, Undefined,
                      currentState[c])
       IN  /\ call' = [call EXCEPT ![c].sub = b.sub, ![c].log = Append(@, done) \o b.log]
           /\ order' = b.ord
    /\ UNCHANGED <<graphs, config, currentState, initialState, orderProcessStrategy, process, now>>

\* A downstream failure, as the service raises it.
DownstreamError(service) ==
    [name |-> "DownstreamError", message |-> service, fromState |-> "", toState |-> ""]

\* The built-in onTransitionEnd after an await (l.70, l.71, l.76): the awaited
\* service call resolved (ok) or raised.
onTransitionEnd_resume(c, ok) ==
    /\ call[c].pc = "end"
    /\ call[c].sub \in {"stock", "promo", "history"}
    /\ LET a == call[c].args
           cur == currentState[c]
       IN  IF ~ok
           THEN /\ call' = [call EXCEPT ![c].sub = "failed",
                                        ![c].err = DownstreamError(call[c].sub)]
                /\ order' = order
           ELSE CASE call[c].sub = "stock" ->
                        /\ call' = [call EXCEPT ![c].sub = "promo",
                                        ![c].log = Append(@, Ev("addPromotionsToOrder",
                                                a.fromState, a.toState, Undefined, cur))]
                        /\ order' = order
                  [] call[c].sub = "promo" ->
                        LET b == onTransitionEnd_history(a.fromState, a.toState, order, cur)
                        IN  /\ call' = [call EXCEPT ![c].sub = b.sub, ![c].log = @ \o b.log]
                            /\ order' = b.ord
                  [] call[c].sub = "history" ->
                        /\ call' = [call EXCEPT ![c].sub = "done"]
                        /\ order' = order
    /\ UNCHANGED <<graphs, config, currentState, initialState, orderProcessStrategy, process, now>>

\* The config's onError after its await of the strategy's hook (l.123): the throw
\* of l.127.
initConfig_onError_resume(c) ==
    /\ call[c].pc = "error"
    /\ call[c].sub = "strategyError"
    /\ LET a == call[c].args
       IN  call' = [call EXCEPT ![c].sub = "failed",
                                ![c].err = IllegalOperationError(a.message, a.fromState, a.toState)]
    /\ UNCHANGED <<graphs, config, currentState, initialState, order, orderProcessStrategy, process, now>>

\* The configuration-level hooks that are called without await, and the event
\* that records the settling of the promise each returns.
UnawaitedHooks == {"process.onTransitionEnd", "process.onTransitionError"}

Settling(name) ==
    IF name = "process.onTransitionEnd"
    THEN "process.onTransitionEnd.settled"
    ELSE "process.onTransitionError.settled"

\* The hook invocation of call c whose promise has not settled yet, if any.
PendingHooks(c) ==
    {i \in DOMAIN call[c].log :
        /\ call[c].log[i].ev \in UnawaitedHooks
        /\ \A j \in DOMAIN call[c].log : call[c].log[j].ev # Settling(call[c].log[i].ev)}

\* The promise of an async configuration-level hook settles: nothing awaits it
\* (l.117, l.125), so this happens at any later point of the run.
process_hook_settles(c) ==
    /\ \E i \in PendingHooks(c) :
            LET x == call[c].log[i]
            IN  call' = [call EXCEPT ![c].log =
                            Append(@, Ev(Settling(x.ev), x.from, x.to, x.msg, currentState[c]))]
    /\ UNCHANGED <<graphs, config, currentState, initialState, order, orderProcessStrategy, process, now>>

\* One long-lived engine for every call instead of new FSM(...) per call.
transition_sharedEngine(c, state) ==
    /\ Free(c)
    /\ now < MaxClock
    /\ now' = now + 1
    /\ initialState' = initialState
    /\ TransitionToBody(c, Caller, currentState[Caller], state,
            [IdleCall EXCEPT !.op = "transition", !.state = state, !.tpc = "await",
                             !.pre = [cur |-> order.state, order |-> order]])
    /\ UNCHANGED <<graphs, config, orderProcessStrategy, process>>

\* OrderStateMachine.transition(ctx, order, state) (l.43-45) up to the first await:
\* new FSM(this.config, order.state), then fsm.transitionTo(state, { ctx, order }).
\* The engine of caller c is engine c.
transition(c, state) ==
    /\ Free(c)
    /\ now < MaxClock
    /\ now' = now + 1
    /\ initialState' = [initialState EXCEPT ![c] = order.state]
    /\ TransitionToBody(c, c, order.state, state,
            [IdleCall EXCEPT !.op = "transition", !.state = state, !.tpc = "await",
                             !.pre = [cur |-> order.state, order |-> order]])
    /\ UNCHANGED <<graphs, config, orderProcessStrategy, process>>

\* The write of l.46 in a finally block: it also happens when transitionTo threw.
TransitionSettled_finally(rec, ord) ==
    [tpc |-> IF rec.pc = "returned" THEN "returned" ELSE "threw",
     ord |-> [ord EXCEPT !.state = rec.state]]

\* What transition does once fsm.transitionTo has settled (l.45-47).
TransitionSettled(rec, ord) ==
    IF rec.pc = "returned"
    THEN [tpc |-> "returned", ord |-> [ord EXCEPT !.state = rec.state]]
    ELSE [tpc |-> "threw", ord |-> ord]

\* OrderStateMachine.transition after its await of l.45.
transition_resume(c) ==
    /\ call[c].tpc = "await"
    /\ call[c].pc \in {"returned", "threw"}
    /\ LET t == TransitionSettled(call[c], order)
       IN  /\ call' = [call EXCEPT ![c].tpc = t.tpc]
           /\ order' = t.ord
    /\ UNCHANGED <<graphs, config, currentState, initialState, orderProcessStrategy, process, now>>

\* OrderStateMachine.canTransition(currentState, newState) (l.34-36):
\* new FSM(this.config, currentState).canTransitionTo(newState), on engine c.
canTransition(c, fromState, newState) ==
    /\ Free(c)
    /\ currentState' = [currentState EXCEPT ![c] = fromState]
    /\ initialState' = [initialState EXCEPT ![c] = fromState]
    /\ call' = [call EXCEPT ![c] =
                   [IdleCall EXCEPT !.op = "canTransition", !.pc = "returned", !.state = newState,
                                    !.val = Bool(LegalFrom(fromState, newState)),
                                    !.pre = [cur |-> fromState, order |-> order]]]
    /\ UNCHANGED <<graphs, config, order, orderProcessStrategy, process, now>>

\* --------------------------------------------------------- specifications
\* A new Order: getInitialState() (l.19, l.30-32), active, not yet placed.
NewOrder(lines, customer) ==
    [state |-> "AddingItems", lines |-> lines, customer |-> customer,
     active |-> TRUE, orderPlacedAt |-> 0]

\* The graphs the engine is exercised on.
EngineGraphs ==
    {[A |-> [to |-> <<"B">>], B |-> [to |-> <<>>], C |-> [to |-> <<>>]],
     [A |-> [to |-> <<"B", "C">>], B |-> [to |-> <<"C", "B">>], C |-> [to |-> <<"A">>]]}

\* config.transitions holds the graph by value where a specification follows one
\* configuration only: the graph objects are then left out.
NoGraphObjects ==
    /\ toOf = <<>>
    /\ baseGraph = <<>>
    /\ customGraph = <<>>
    /\ builds = <<>>

\* An engine built by new FSM(config, initialState) (l.37-40) on a config whose
\* callbacks, where present, record their invocation.
Init ==
    /\ \E g \in EngineGraphs, s, t, x \in {"none", "stub"} :
            config = [transitions |-> g, onTransitionStart |-> s,
                      onTransitionEnd |-> t, onError |-> x]
    /\ \E s0 \in DOMAIN config.transitions :
            /\ currentState = [e \in Calls |-> s0]
            /\ initialState = [e \in Calls |-> s0]
    /\ call = [c \in Calls |-> IdleCall]
    /\ order = NewOrder(0, FALSE)
    /\ orderProcessStrategy = {}
    /\ process = [hooks |-> {}, transitions |-> <<>>, async |-> FALSE]
    /\ now = 0
    /\ NoGraphObjects

\* One caller works on the engine and awaits each call before it makes the next
\* (Free): any number of transitionTo and jumpTo calls, one after the other.
Next ==
    \/ \E state \in DOMAIN config.transitions : transitionTo(Caller, TheFsm, state)
    \/ transitionTo_resume(Caller, TheFsm)
    \/ transitionTo_return(Caller)
    \/ \E state \in DOMAIN config.transitions : jumpTo(Caller, TheFsm, state)
    \/ \E state \in DOMAIN config.transitions : canTransitionTo_query(Caller, TheFsm, state)
    \/ \E v \in GuardValues : promiseResolves(Caller, v)
    \/ \E v \in GuardValues : observableNext(Caller, v)
    \/ observableComplete(Caller)

Spec == Init /\ [][Next]_vars

\* One engine instance used from several calling contexts: a caller may call
\* transitionTo or jumpTo while another caller's transitionTo is suspended at an
\* await.  All three callbacks are configured.
InitShared ==
    /\ Init
    /\ config.onTransitionStart = "stub"
    /\ config.onTransitionEnd = "stub"
    /\ config.onError = "stub"

NextShared ==
    \E c \in Calls :
        \/ \E state \in DOMAIN config.transitions : transitionTo(c, TheFsm, state)
        \/ transitionTo_resume(c, TheFsm)
        \/ transitionTo_return(c)
        \/ \E state \in DOMAIN config.transitions : jumpTo(c, TheFsm, state)
        \/ \E v \in {Undefined, "false"} : promiseResolves(c, v)
        \/ observableNext(c, "false")
        \/ observableComplete(c)

SpecShared == InitShared /\ [][NextShared]_vars

\* The hooks a strategy or the process options define.
HookSets == {{}, OrderHooks}

\* initConfig (l.87-132): the configuration the constructor (l.21-28) builds.
initConfig ==
    [transitions |-> mergeTransitionDefinitions(orderStateTransitions, process.transitions),
     onTransitionStart |-> "order", onTransitionEnd |-> "order", onError |-> "order"]

\* An OrderStateMachine and a new order.
InitOrder ==
    /\ orderProcessStrategy \in HookSets
    /\ \E h \in HookSets, t \in {<<>>, <<CustomTransitions>>}, a \in BOOLEAN :
            /\ a => h # {}
            /\ process = [hooks |-> h, transitions |-> t, async |-> a]
    /\ config = initConfig
    /\ \E n \in LineCounts, b \in BOOLEAN : order = NewOrder(n, b)
    /\ currentState = [e \in Calls |-> order.state]
    /\ initialState = [e \in Calls |-> order.state]
    /\ call = [c \in Calls |-> IdleCall]
    /\ now = 0
    /\ NoGraphObjects

\* One caller makes transition calls on the order, one after the other, each on
\* the engine the call constructs; the clock bounds their number.
NextOrder ==
    \/ \E state \in DOMAIN config.transitions : transition(Caller, state)
    \/ initConfig_onTransitionStart_resume(Caller)
    \/ transitionTo_resume(Caller, Caller)
    \/ initConfig_onTransitionEnd_resume(Caller)
    \/ \E ok \in BOOLEAN : onTransitionEnd_resume(Caller, ok)
    \/ initConfig_onError_resume(Caller)
    \/ transitionTo_return(Caller)
    \/ transition_resume(Caller)
    \/ process_hook_settles(Caller)
    \/ \E v \in GuardValues : promiseResolves(Caller, v)
    \/ \E v \in GuardValues : observableNext(Caller, v)
    \/ observableComplete(Caller)

SpecOrder == InitOrder /\ [][NextOrder]_vars

\* transition calls made where calls may overlap
MaxOverlap == 2

\* Independent calling contexts: transition calls on the one order may overlap,
\* each caller's call running on the engine it constructed.  The order has a
\* line and a customer and the process defines the custom state; the guard hooks
\* are left out here, the end hooks and the built-in rule are present.
InitOverlap ==
    /\ orderProcessStrategy \in {{}, OrderHooks \ {"onTransitionStart"}}
    /\ \E h \in {{}, OrderHooks \ {"onTransitionStart"}}, a \in BOOLEAN :
            /\ a => h # {}
            /\ process = [hooks |-> h, transitions |-> <<CustomTransitions>>, async |-> a]
    /\ config = initConfig
    /\ order = NewOrder(1, TRUE)
    /\ currentState = [e \in Calls |-> order.state]
    /\ initialState = [e \in Calls |-> order.state]
    /\ call = [c \in Calls |-> IdleCall]
    /\ now = 0
    /\ NoGraphObjects

\* The two calling contexts whose calls overlap.
Pair == {Caller, Caller + 1}

NextOverlap ==
    \E c \in Pair :
        \/ \E state \in DOMAIN config.transitions : now < MaxOverlap /\ transition(c, state)
        \/ initConfig_onTransitionStart_resume(c)
        \/ transitionTo_resume(c, c)
        \/ initConfig_onTransitionEnd_resume(c)
        \/ \E ok \in BOOLEAN : onTransitionEnd_resume(c, ok)
        \/ initConfig_onError_resume(c)
        \/ transitionTo_return(c)
        \/ transition_resume(c)
        \/ process_hook_settles(c)

SpecOverlap == InitOverlap /\ [][NextOverlap]_vars

\* The queries on their own: canTransition builds a throwaway engine at any
\* state, which is then asked again or moved by jumpTo.
NextQuery ==
    \/ \E fromState, newState \in DOMAIN config.transitions :
            canTransition(Caller, fromState, newState)
    \/ \E state \in DOMAIN config.transitions : canTransitionTo_query(Caller, Caller, state)
    \/ \E state \in DOMAIN config.transitions : jumpTo(Caller, Caller, state)

SpecQuery == InitOrder /\ [][NextQuery]_vars

\* ------------------------------------------------------ configuration builds
MaxBuilds == 3

\* An entry object { to: [...] } of a graph.
EntryOf(graph, key) == [graph |-> graph, key |-> key]

\* The destination lists an override may give a state.
CustomLists == {<<"Validating">>, <<"ArrangingPayment", "AddingItems">>, <<"Cancelled">>}

\* The override graphs of orderOptions.process.transitions: any of the lists for
\* any states among two states of the base graph and one custom state.
CustomGraphs ==
    UNION {{[key \in keys |-> [to |-> f[key]]] : f \in [keys -> CustomLists]} :
                keys \in SUBSET {"AddingItems", "Cancelled", "Validating"}}

\* A graph object as the value it holds.
Deref(graph) == [key \in DOMAIN graph |-> [to |-> toOf[graph[key]]]]

\* The module order-state.ts loaded and the process options given: no
\* OrderStateMachine constructed yet.
InitBuild ==
    /\ orderProcessStrategy = {}
    /\ \E t \in {<<>>} \cup {<<g>> : g \in CustomGraphs} :
            /\ process = [hooks |-> {}, transitions |-> t, async |-> FALSE]
            /\ baseGraph = [key \in DOMAIN orderStateTransitions |-> EntryOf("default", key)]
            /\ customGraph = IF t = <<>> THEN <<>>
                             ELSE <<[key \in DOMAIN t[1] |-> EntryOf("custom", key)]>>
            /\ toOf = [e \in {EntryOf("default", key) : key \in DOMAIN orderStateTransitions}
                              \cup (IF t = <<>> THEN {}
                                    ELSE {EntryOf("custom", key) : key \in DOMAIN t[1]}) |->
                          IF e.graph = "default"
                          THEN orderStateTransitions[e.key].to
                          ELSE t[1][e.key].to]
    /\ builds = <<>>
    /\ config = [transitions |-> orderStateTransitions,
                 onTransitionStart |-> "order", onTransitionEnd |-> "order", onError |-> "order"]
    /\ order = NewOrder(0, FALSE)
    /\ currentState = [e \in Calls |-> order.state]
    /\ initialState = [e \in Calls |-> order.state]
    /\ call = [c \in Calls |-> IdleCall]
    /\ now = 0

\* new OrderStateMachine(...) (l.21-28): initConfig (l.87-97) calls
\* mergeTransitionDefinitions(orderStateTransitions, transitions) (l.138-155),
\* which works on the objects it is handed: merged is the base object itself
\* (l.145), an entry of a key the base has gets a new `to` array (l.149), and a
\* key the base lacks gets the override's entry object (l.151).
initConfig_build ==
    /\ Len(builds) < MaxBuilds
    /\ IF customGraph = <<>>
       THEN UNCHANGED <<toOf, baseGraph>>
       ELSE LET custom == customGraph[1]
                both == DOMAIN custom \cap DOMAIN baseGraph
            IN  /\ toOf' = [e \in DOMAIN toOf |->
                              IF \E key \in both : baseGraph[key] = e
                              THEN LET key == CHOOSE k \in both : baseGraph[k] = e
                                   IN  MergedTo(toOf[e], toOf[custom[key]])
                              ELSE toOf[e]]
                /\ baseGraph' = [key \in DOMAIN baseGraph \cup DOMAIN custom |->
                                    IF key \in DOMAIN baseGraph
                                    THEN baseGraph[key]
                                    ELSE custom[key]]
    /\ builds' = Append(builds,
            [defaultTranstions |-> Deref(baseGraph),
             customTranstitions |-> IF customGraph = <<>> THEN <<>>
                                    ELSE <<Deref(customGraph[1])>>,
             merged |-> [key \in DOMAIN baseGraph' |-> [to |-> toOf'[baseGraph'[key]]]]])
    /\ config' = [config EXCEPT !.transitions =
                    [key \in DOMAIN baseGraph' |-> [to |-> toOf'[baseGraph'[key]]]]]
    /\ UNCHANGED <<customGraph, currentState, initialState, call, order, orderProcessStrategy,
                   process, now>>

\* Any number of OrderStateMachine instances are constructed in one process, all
\* on the same module-level base graph and the same process options.
NextBuild == initConfig_build

SpecBuild == InitBuild /\ [][NextBuild]_vars

\* ------------------------------------------------------------------ claims
\* The destinations the graph lists for a state.
Dest(fromState) ==
    {config.transitions[fromState].to[i] : i \in DOMAIN config.transitions[fromState].to}

\* The callback invocations the engine's test config records, by name.
LogOf(rec, names) == SelectSeq(rec.log, LAMBDA x : x.ev \in names)

\* The record of one invocation as the claims expect it.
Invocation(name, fromState, toState, message, cur, entityState) ==
    [ev |-> name, from |-> fromState, to |-> toState, msg |-> message,
     cur |-> cur, state |-> entityState]

\* C1: transitionTo(target) with target not in graph[currentState].to invokes
\* onError exactly once with (currentState, target, undefined), invokes neither
\* onTransitionStart nor onTransitionEnd, leaves currentState unchanged, and raises
\* nothing: with no onError configured nothing is invoked and the call returns.
C1_IllegalTargetOnlyReported ==
    LET r == call[Caller]
    IN  (r.op = "transitionTo" /\ r.state \notin Dest(r.pre.cur)) =>
            /\ r.log = IF config.onError = "none"
                       THEN <<>>
                       ELSE <<Invocation("onError", r.pre.cur, r.state, Undefined,
                                         r.pre.cur, order.state)>>
            /\ currentState[TheFsm] = r.pre.cur
            /\ r.pc \in {"error", "returned"}
            /\ r.pc = "error" => r.sub = "done"
            /\ r.err = NoErr

C1_Witness ==
    LET r == call[Caller]
    IN  /\ r.op = "transitionTo"
        /\ r.state \notin Dest(r.pre.cur)
        /\ r.pc = "returned"
        /\ config.onError = "stub"
        /\ config.onTransitionStart = "stub"
        /\ config.onTransitionEnd = "stub"
        /\ Dest(r.pre.cur) # {}
        /\ Len(r.log) = 1

\* The values of a guard that cancel the transition, and the message each hands
\* to onError.
Cancels(v) == v = "false" \/ v \in Messages
MessageOf(v) == IF v = "false" THEN Undefined ELSE v

\* The call of the caller went past its guard, which resolved to v.
GuardResolved(r) ==
    /\ r.op = "transitionTo"
    /\ r.state \in Dest(r.pre.cur)
    /\ config.onTransitionStart = "stub"
    /\ r.pc # "start"

StartInvocation(r) ==
    <<Invocation("onTransitionStart", r.pre.cur, r.state, Undefined, r.pre.cur, order.state)>>

\* C2: when the guard of a graph-legal target resolves to false or to a string,
\* onError is invoked exactly once, with (currentState, target, undefined) for
\* false and (currentState, target, thatString) for a string, onTransitionEnd is
\* never invoked and currentState is unchanged; it holds of every attempt made on
\* the engine, however many were rejected before.
C2_GuardRejectionOnlyReported ==
    LET r == call[Caller]
    IN  (GuardResolved(r) /\ Cancels(r.val)) =>
            /\ r.log = StartInvocation(r) \o
                       (IF config.onError = "none"
                        THEN <<>>
                        ELSE <<Invocation("onError", r.pre.cur, r.state, MessageOf(r.val),
                                          r.pre.cur, order.state)>>)
            /\ currentState[TheFsm] = r.pre.cur
            /\ r.pc \in {"error", "returned"}
            /\ r.outcome = "rejected"

C2_Witness ==
    LET r == call[Caller]
    IN  /\ GuardResolved(r)
        /\ r.val = ""
        /\ r.pc = "returned"
        /\ config.onError = "stub"
        /\ config.onTransitionEnd = "stub"
        /\ r.pre.cur # initialState[TheFsm]

\* C3: when the guard of a graph-legal target is absent or resolves to undefined
\* or true, currentState is the target afterwards, onError is not invoked, and a
\* configured onTransitionEnd is invoked exactly once, with fromState the state
\* held before the call, at a moment when currentState already is the target.
C3_AcceptedTransitionCommits ==
    LET r == call[Caller]
    IN  (/\ r.op = "transitionTo"
         /\ r.state \in Dest(r.pre.cur)
         /\ \/ config.onTransitionStart = "none"
            \/ r.pc # "start" /\ r.val \in {Undefined, "true"}) =>
            /\ r.log = (IF config.onTransitionStart = "none" THEN <<>> ELSE StartInvocation(r))
                       \o (IF config.onTransitionEnd = "none"
                           THEN <<>>
                           ELSE <<Invocation("onTransitionEnd", r.pre.cur, r.state, Undefined,
                                             r.state, order.state)>>)
            /\ currentState[TheFsm] = r.state
            /\ r.pc \in {"end", "returned"}
            /\ r.err = NoErr

C3_Witness ==
    LET r == call[Caller]
    IN  /\ r.op = "transitionTo"
        /\ r.state \in Dest(r.pre.cur)
        /\ r.state # r.pre.cur
        /\ config.onTransitionStart = "stub"
        /\ config.onTransitionEnd = "stub"
        /\ r.val = "true"
        /\ r.pc = "returned"
        /\ Len(r.log) = 2
        /\ r.log[2].from = r.pre.cur /\ r.log[2].cur = r.state

\* C10: jumpTo(state) sets currentState to state, reachable per the graph or not,
\* invokes no callback, and no operation of the engine ever changes initialState.
C10_JumpIsUnconditional ==
    /\ [](LET r == call[Caller]
          IN  r.op = "jumpTo" =>
                /\ currentState[TheFsm] = r.state
                /\ r.log = <<>>
                /\ r.pc = "returned"
                /\ r.err = NoErr)
    /\ [][initialState' = initialState]_vars

C10_Witness ==
    LET r == call[Caller]
    IN  /\ r.op = "jumpTo"
        /\ r.state \notin Dest(r.pre.cur)
        /\ r.state # r.pre.cur
        /\ currentState[TheFsm] = r.state
        /\ initialState[TheFsm] # r.state
        /\ config.onTransitionStart = "stub"
        /\ config.onTransitionEnd = "stub"
        /\ config.onError = "stub"

\* ------------------------------------------- claims on the order state machine
Generic == "error.cannot-transition-order-from-to"
EmptyOrder == "error.cannot-transition-to-payment-when-order-is-empty"
NoCustomer == "error.cannot-transition-to-payment-without-customer"

ErrorHooks == {"strategy.onTransitionError", "process.onTransitionError"}
Services == {"createSalesForOrder", "addPromotionsToOrder", "createHistoryEntryForOrder"}
EndHooks == {"strategy.onTransitionEnd", "process.onTransitionEnd"} \cup Services

Names(log) == [i \in DOMAIN log |-> log[i].ev]

\* The transition call of the caller was rejected: its target is not in the merged
\* graph, or its guard chain resolved to false or a string and the engine saw it.
TransitionRejected(r) ==
    /\ r.op = "transition"
    /\ \/ r.state \notin Dest(r.pre.order.state)
       \/ r.pc # "start" /\ r.val \notin {Undefined, "true"}

\* C4: transition writes entity.state = target only once the engine has committed
\* the target in that call; until then, and after every rejected attempt,
\* entity.state is what it was before the call.
C4_EntityStateWrittenOnlyOnCommit ==
    LET r == call[Caller]
    IN  r.op = "transition" =>
            /\ r.tpc = "returned" =>
                    /\ order.state = r.state
                    /\ currentState[Caller] = r.state
                    /\ r.outcome = "committed"
            /\ r.tpc # "returned" => order.state = r.pre.order.state
            /\ TransitionRejected(r) =>
                    /\ order.state = r.pre.order.state
                    /\ currentState[Caller] = r.pre.order.state
                    /\ r.tpc # "returned"

C4_Witness ==
    LET r == call[Caller]
    IN  /\ TransitionRejected(r)
        /\ r.state \in Dest(r.pre.order.state)
        /\ r.val = "false"
        /\ r.tpc = "threw"
        /\ order.state = "ArrangingPayment"

\* The message the engine handed to onError for a rejected transition call.
RejectionMessage(r) ==
    IF r.state \notin Dest(r.pre.order.state) \/ r.val = "false" THEN Undefined ELSE r.val

\* The error hook a rejected transition call has to invoke.
ErrorHookOf(r) ==
    IF "onTransitionError" \in orderProcessStrategy
    THEN <<Invocation("strategy.onTransitionError", r.pre.order.state, r.state,
                      RejectionMessage(r), r.pre.order.state, r.pre.order.state)>>
    ELSE IF "onTransitionError" \in process.hooks
    THEN <<Invocation("process.onTransitionError", r.pre.order.state, r.state,
                      RejectionMessage(r), r.pre.order.state, r.pre.order.state)>>
    ELSE <<>>

\* A rejected transition call invokes the error hook first and then always raises
\* an IllegalOperationError with { fromState, toState } and the message text.
RejectionRaises(r, text) ==
    /\ LogOf(r, ErrorHooks) = ErrorHookOf(r)
    /\ r.pc \in {"error", "threw"}
    /\ r.pc = "error" => r.sub \in {"strategyError", "failed"}
    /\ r.sub = "strategyError" => r.err = NoErr
    /\ r.sub = "failed" =>
            r.err = [name |-> "IllegalOperationError", message |-> text,
                     fromState |-> r.pre.order.state, toState |-> r.state]
    /\ r.pc = "threw" => r.sub = "failed"
    /\ r.tpc \in {"await", "threw"}

\* C5 as stated: the message is the guard's string whenever the guard returned a
\* string, and the generic message for false or an unreachable target.
C5_MessageIsGuardString ==
    LET r == call[Caller]
    IN  TransitionRejected(r) =>
            RejectionRaises(r, IF RejectionMessage(r) = Undefined
                               THEN Generic
                               ELSE RejectionMessage(r))

\* C5, amended: on every rejected transition the error hook (the strategy's, else
\* the configuration's) is invoked first and then an IllegalOperationError with
\* { fromState, toState } is always raised; its message is the guard's string when
\* the guard returned a non-empty string, and the generic message when the guard
\* returned false or the empty string or the target was not reachable.
C5_RejectionAlwaysRaises ==
    LET r == call[Caller]
    IN  TransitionRejected(r) =>
            RejectionRaises(r, IF RejectionMessage(r) \in {Undefined, ""}
                               THEN Generic
                               ELSE RejectionMessage(r))

C5_Witness ==
    LET r == call[Caller]
    IN  /\ TransitionRejected(r)
        /\ r.val = "not-allowed"
        /\ r.tpc = "threw"
        /\ r.err.message = "not-allowed"
        /\ "onTransitionError" \in orderProcessStrategy
        /\ Len(LogOf(r, ErrorHooks)) = 1

\* C6: a transition call that returns has recorded exactly one history entry, with
\* from the entity's state before the call and to the target, whatever the target,
\* and the entry's creation was awaited; a rejected call records none.
C6_OneHistoryEntryPerSuccess ==
    LET r == call[Caller]
        history == LogOf(r, {"createHistoryEntryForOrder"})
    IN  r.op = "transition" =>
            /\ r.tpc = "returned" =>
                    /\ history = <<Invocation("createHistoryEntryForOrder", r.pre.order.state,
                                              r.state, Undefined, r.state, r.pre.order.state)>>
                    /\ r.sub = "done"
            /\ TransitionRejected(r) => history = <<>>
            /\ Len(history) <= 1

C6_Witness ==
    LET r == call[Caller]
    IN  /\ r.op = "transition"
        /\ r.tpc = "returned"
        /\ r.state = "Cancelled"
        /\ r.pre.order.state = "PaymentSettled"
        /\ Len(LogOf(r, {"createHistoryEntryForOrder"})) = 1

\* C7: a successful transition into PaymentAuthorized or PaymentSettled sets
\* active to false, stamps the placement time and calls stock, then promotions,
\* then history, once each; into Cancelled it sets active to false and calls
\* neither stock nor promotions; into any other state it leaves active and the
\* placement time alone and calls neither.
C7_BuiltInSideEffects ==
    LET r == call[Caller]
        services == Names(LogOf(r, Services))
    IN  (r.op = "transition" /\ r.tpc = "returned") =>
            IF r.state \in {"PaymentAuthorized", "PaymentSettled"}
            THEN /\ order.active = FALSE
                 /\ order.orderPlacedAt = now
                 /\ now > 0
                 /\ services = <<"createSalesForOrder", "addPromotionsToOrder",
                                 "createHistoryEntryForOrder">>
            ELSE IF r.state = "Cancelled"
            THEN /\ order.active = FALSE
                 /\ services = <<"createHistoryEntryForOrder">>
            ELSE /\ order.active = r.pre.order.active
                 /\ order.orderPlacedAt = r.pre.order.orderPlacedAt
                 /\ services = <<"createHistoryEntryForOrder">>

C7_Witness ==
    LET r == call[Caller]
    IN  /\ r.op = "transition"
        /\ r.tpc = "returned"
        /\ r.state = "PaymentAuthorized"
        /\ r.pre.order.active
        /\ ~order.active
        /\ order.orderPlacedAt = now
        /\ Len(LogOf(r, Services)) = 3

\* What the built-in rule has to answer for a transition call.
BuiltInAnswer(r) ==
    IF r.state = "ArrangingPayment" /\ r.pre.order.lines = 0
    THEN EmptyOrder
    ELSE IF r.state = "ArrangingPayment" /\ ~r.pre.order.customer
    THEN NoCustomer
    ELSE Undefined

\* C8: when the merged graph allows the transition and no strategy or config guard
\* rejects first, a transition into ArrangingPayment is rejected with the
\* empty-order message if the entity has no lines (with or without a customer) and
\* with the without-customer message if it has lines and no customer; the entity is
\* left as it was and no end-hook side effect runs.  No other transition is
\* rejected by the built-in rule.
C8_PaymentNeedsLinesAndCustomer ==
    LET r == call[Caller]
    IN  (/\ r.op = "transition"
         /\ r.state \in Dest(r.pre.order.state)
         /\ r.pc # "start"
         /\ r.resolved \in {Undefined, "true"}) =>
            IF BuiltInAnswer(r) = Undefined
            THEN r.outcome = "committed" /\ r.val = Undefined
            ELSE /\ r.outcome = "rejected"
                 /\ r.val = BuiltInAnswer(r)
                 /\ r.args.message = BuiltInAnswer(r)
                 /\ r.sub = "failed" => r.err.message = BuiltInAnswer(r)
                 /\ order = r.pre.order
                 /\ LogOf(r, EndHooks) = <<>>
                 /\ r.tpc \in {"await", "threw"}

C8_Witness ==
    LET r == call[Caller]
    IN  /\ r.op = "transition"
        /\ r.state = "ArrangingPayment"
        /\ r.pre.order.lines = 0
        /\ ~r.pre.order.customer
        /\ r.tpc = "threw"
        /\ r.err.message = EmptyOrder
        /\ "onTransitionStart" \in orderProcessStrategy
        /\ r.resolved = "true"

\* A service call of the end hook raised during the transition call.
DownstreamRaised(r) ==
    /\ r.op = "transition"
    /\ r.outcome = "committed"
    /\ r.sub = "failed"

\* The failure of the service the end hook awaited last.
RaisedBy(r) ==
    LET services == Names(LogOf(r, Services))
        last == services[Len(services)]
    IN  [name |-> "DownstreamError",
         message |-> CASE last = "createSalesForOrder" -> "stock"
                       [] last = "addPromotionsToOrder" -> "promo"
                       [] last = "createHistoryEntryForOrder" -> "history",
         fromState |-> "", toState |-> ""]

\* C9 as stated: the failure propagates unchanged and the entity's state is left
\* advanced to the target.
C9_EntityStateAdvancedOnFailure ==
    LET r == call[Caller]
    IN  (DownstreamRaised(r) /\ r.tpc = "threw") =>
            /\ r.err = RaisedBy(r)
            /\ order.state = r.state

\* C9, amended: when a stock, promotion or history call raises during the end
\* hook, the failure propagates unchanged to the caller of transition and the
\* engine's currentState is left advanced to the target, but entity.state is not
\* written: it keeps the value it had before the call.
C9_FailurePropagatesEngineAdvanced ==
    LET r == call[Caller]
    IN  DownstreamRaised(r) =>
            /\ r.err = RaisedBy(r)
            /\ r.pc \in {"end", "threw"}
            /\ r.tpc \in {"await", "threw"}
            /\ currentState[Caller] = r.state
            /\ order.state = r.pre.order.state

C9_Witness ==
    LET r == call[Caller]
    IN  /\ DownstreamRaised(r)
        /\ r.tpc = "threw"
        /\ r.err.message = "promo"
        /\ r.state = "PaymentSettled"
        /\ currentState[Caller] = "PaymentSettled"
        /\ order.state = "ArrangingPayment"
        /\ ~order.active

\* C11: for every pair (from, to), canTransitionTo(to) of an engine whose
\* currentState is from, and the adapter's canTransition(from, to), which asks a
\* fresh engine built at from, answer true iff to is in the destination list of
\* from in the (merged) graph; the query leaves the engine at from, leaves the
\* entity and the graph alone and invokes no callback.
C11_QueryIsGraphMembership ==
    /\ [](LET r == call[Caller]
          IN  r.op \in {"canTransitionTo", "canTransition"} =>
                /\ r.val = (IF r.state \in Dest(r.pre.cur) THEN "true" ELSE "false")
                /\ currentState[Caller] = r.pre.cur
                /\ order = r.pre.order
                /\ r.log = <<>>
                /\ r.pc = "returned"
                /\ r.err = NoErr)
    /\ [][config' = config]_vars

C11_Witness ==
    LET r == call[Caller]
        to == config.transitions[r.pre.cur].to
    IN  /\ r.op = "canTransition"
        /\ r.val = "true"
        /\ process.transitions # <<>>
        /\ r.pre.cur = "AddingItems"
        /\ r.state = "Validating"

\* ------------------------------------------------- ordering within one attempt
\* Everything the end hooks do: their invocations, the settling of the hooks'
\* promises and the service calls of the built-in hook.
EndEvents ==
    EndHooks \cup {"strategy.onTransitionEnd.settled", "process.onTransitionEnd.settled"}

StartHooks == {"strategy.onTransitionStart", "process.onTransitionStart", "this.onTransitionStart"}

IsPrefix(a, b) == Len(a) <= Len(b) /\ \A i \in DOMAIN a : a[i] = b[i]

\* The end hook of the configuration that is called, with its completion.
EndHookSteps ==
    IF "onTransitionEnd" \in orderProcessStrategy
    THEN <<"strategy.onTransitionEnd", "strategy.onTransitionEnd.settled">>
    ELSE IF "onTransitionEnd" \in process.hooks
         THEN <<"process.onTransitionEnd", "process.onTransitionEnd.settled">>
         ELSE <<>>

\* C12: within one adapter transition attempt the guard chain is resolved while
\* the engine is still at the old state, the engine then commits the target, the
\* end-hook side effects then run to completion, and only then the adapter writes
\* entity.state: every end-hook side effect sees the engine at the target and
\* the entity at the old state, and none is left to run once the entity is written.
C12_StrictOrderOfAttempt ==
    LET r == call[Caller]
    IN  r.op = "transition" =>
            /\ \A i \in DOMAIN r.log :
                    /\ r.log[i].ev \in StartHooks =>
                            /\ r.log[i].cur = r.pre.cur
                            /\ r.log[i].state = r.pre.order.state
                            /\ \A j \in 1..(i - 1) : r.log[j].ev \notin EndEvents
                    /\ r.log[i].ev \in EndEvents =>
                            /\ r.log[i].cur = r.state
                            /\ r.log[i].state = r.pre.order.state
            /\ r.pc = "start" => currentState[Caller] = r.pre.cur /\ order = r.pre.order
            /\ r.tpc = "returned" =>
                    /\ order.state = r.state
                    /\ IsPrefix(EndHookSteps, Names(LogOf(r, EndEvents)))

\* C14: on a successful commit the end steps run in the order (1) the strategy's
\* onTransitionEnd if present, else the configuration-level one if present,
\* (2) the built-in side effects, (3) the history entry, each step complete
\* before the next starts: what has run so far is a prefix of hook, hook
\* settled, stock, promotions, history.
C14_EndStepsOneAfterTheOther ==
    LET r == call[Caller]
        builtIn == IF r.state \in {"PaymentAuthorized", "PaymentSettled"}
                   THEN <<"createSalesForOrder", "addPromotionsToOrder">>
                   ELSE <<>>
    IN  (r.op = "transition" /\ r.outcome = "committed") =>
            IsPrefix(Names(LogOf(r, EndEvents)),
                     EndHookSteps \o builtIn \o <<"createHistoryEntryForOrder">>)

\* The guard hook of the configuration that is asked first, if any.
StartHookSteps ==
    IF "onTransitionStart" \in orderProcessStrategy
    THEN <<"strategy.onTransitionStart">>
    ELSE IF "onTransitionStart" \in process.hooks
         THEN <<"process.onTransitionStart">>
         ELSE <<>>

\* C13: the adapter's guard chain asks the strategy's onTransitionStart if
\* present, else the configuration-level one if present, never both, and then the
\* built-in rule; the built-in rule is evaluated only if the hook resolved to
\* neither false nor a string, and a false or a string of the hook is what the
\* chain returns as the rejection.
C13_GuardChainOrder ==
    LET r == call[Caller]
        early == r.resolved = "false" \/ r.resolved \in Messages
    IN  (r.op = "transition" /\ r.state \in Dest(r.pre.order.state)) =>
            IF r.pc = "start" /\ r.sub = "hook"
            THEN Names(r.log) = StartHookSteps
            ELSE /\ Names(LogOf(r, StartHooks)) =
                        StartHookSteps \o (IF early THEN <<>> ELSE <<"this.onTransitionStart">>)
                 /\ StartHookSteps = <<>> => r.resolved = Undefined
                 /\ early => r.val = r.resolved
                 /\ (early /\ r.pc # "start") =>
                        /\ r.outcome = "rejected"
                        /\ r.args.message = (IF r.resolved = "false" THEN Undefined ELSE r.resolved)
                 /\ ~early => r.val = BuiltInAnswer(r)

C13_Witness ==
    LET r == call[Caller]
    IN  /\ r.op = "transition"
        /\ OrderHooks \subseteq orderProcessStrategy
        /\ OrderHooks \subseteq process.hooks
        /\ r.state = "ArrangingPayment"
        /\ r.pre.order.lines = 0
        /\ r.resolved = "not-allowed"
        /\ r.tpc = "threw"
        /\ Names(LogOf(r, StartHooks)) = <<"strategy.onTransitionStart">>

\* --------------------------------------------------------------- the merge
\* The override object as the value it holds now.
OverrideNow == IF customGraph = <<>> THEN <<>> ELSE <<Deref(customGraph[1])>>

\* C15: mergeTransitionDefinitions(base, override): for every key in both, the
\* result lists the base's destinations followed by the override's, duplicates
\* kept; a key only in the override has the override's entry, a key only in the
\* base has the base's entry; with no override the result is the base.
C15_MergeAppends ==
    \A i \in DOMAIN builds :
        LET base == builds[i].defaultTranstions
            merged == builds[i].merged
        IN  IF builds[i].customTranstitions = <<>>
            THEN merged = base
            ELSE LET override == builds[i].customTranstitions[1]
                 IN  /\ DOMAIN merged = DOMAIN base \cup DOMAIN override
                     /\ \A key \in DOMAIN base \cap DOMAIN override :
                            /\ Len(merged[key].to) = Len(base[key].to) + Len(override[key].to)
                            /\ SubSeq(merged[key].to, 1, Len(base[key].to)) = base[key].to
                            /\ SubSeq(merged[key].to, Len(base[key].to) + 1,
                                      Len(merged[key].to)) = override[key].to
                     /\ \A key \in DOMAIN override \ DOMAIN base : merged[key] = override[key]
                     /\ \A key \in DOMAIN base \ DOMAIN override : merged[key] = base[key]

C15_Witness ==
    /\ Len(builds) = 1
    /\ builds[1].customTranstitions # <<>>
    /\ DOMAIN builds[1].customTranstitions[1] = {"AddingItems", "Validating"}
    /\ builds[1].merged["AddingItems"].to = <<"ArrangingPayment", "Cancelled", "Cancelled">>
    /\ builds[1].merged["Validating"].to = <<"ArrangingPayment", "AddingItems">>
    /\ builds[1].merged["Fulfilled"].to = <<"Cancelled">>

\* C16: the override graph is never mutated by the merge: after any number of
\* configuration builds with the same override object, every destination list of
\* the override is what it was before the first build, also for keys the base
\* graph did not contain.
C16_OverrideNeverMutated ==
    builds # <<>> => OverrideNow = builds[1].customTranstitions

\* C17: builds do not accumulate: every build with the same base and the same
\* override yields the same merged graph, the base's destinations followed by
\* one copy of the override's, and the shared base graph is after the builds
\* what it was before them.
C17_BuildsDoNotAccumulate ==
    builds # <<>> =>
        /\ \A i \in DOMAIN builds : builds[i].merged = builds[1].merged
        /\ Deref(baseGraph) = builds[1].defaultTranstions

\* --------------------------------------------------- asynchronous guard results
Decisions == {"onError", "onTransitionEnd"}

\* C18: when onTransitionStart returns a promise or a stream, the engine neither
\* commits nor calls onError before the source has settled; it then decides
\* once, from the one value the source resolved to (for a stream the last value
\* before completion): exactly one of commit and onError, however many values a
\* stream emitted.
C18_OneDecisionOnceSettled ==
    /\ [](LET r == call[Caller]
          IN  (/\ r.op = "transitionTo"
               /\ r.state \in Dest(r.pre.cur)
               /\ config.onTransitionStart = "stub") =>
                    IF r.pc = "start"
                    THEN /\ r.outcome = "pending"
                         /\ currentState[TheFsm] = r.pre.cur
                         /\ LogOf(r, Decisions) = <<>>
                    ELSE /\ r.res.done
                         /\ r.outcome \in {"committed", "rejected"}
                         /\ r.outcome = "committed" <=> r.val \in {Undefined, "true"}
                         /\ r.outcome = "committed" =>
                                /\ currentState[TheFsm] = r.state
                                /\ LogOf(r, {"onError"}) = <<>>
                                /\ Len(LogOf(r, {"onTransitionEnd"})) =
                                        (IF config.onTransitionEnd = "stub" THEN 1 ELSE 0)
                         /\ r.outcome = "rejected" =>
                                /\ currentState[TheFsm] = r.pre.cur
                                /\ LogOf(r, {"onTransitionEnd"}) = <<>>
                                /\ Len(LogOf(r, {"onError"})) =
                                        (IF config.onError = "stub" THEN 1 ELSE 0))
    /\ [][LET r == call[Caller]
          IN  (r.pc = "start" /\ call'[Caller].pc # "start") =>
                /\ r.res.done
                /\ call'[Caller].val =
                        (IF r.res.kind = "observable"
                         THEN IF r.res.vals = <<>> THEN Undefined ELSE r.res.vals[Len(r.res.vals)]
                         ELSE r.res.vals[1])]_vars

C18_Witness ==
    LET r == call[Caller]
    IN  /\ r.op = "transitionTo"
        /\ r.res.kind = "observable"
        /\ r.pc = "returned"
        /\ r.val = "not-allowed"
        /\ r.outcome = "rejected"
        /\ config.onError = "stub"
        /\ config.onTransitionEnd = "stub"

\* ------------------------------------------------------------ overlapping calls
\* A transition call whose target the merged graph allows from the entity's
\* state and whose guards pass.
Passes(r) ==
    /\ r.op = "transition"
    /\ r.state \in Dest(r.pre.order.state)
    /\ BuiltInAnswer(r) = Undefined

InFlight(r) == r.op = "transition" /\ r.tpc = "await"

\* C19: the adapter does not mutually exclude transition calls on one entity.
\* Calls that overlap on an entity in state S, with targets in graph[S] that pass
\* the guards, each run on an engine of their own that starts at S and moves to
\* the call's target only; neither raises (services permitting), each records
\* one history entry with from = S, and every returning call writes its own
\* target, so the entity ends at the target of the call that returns last.
C19_OverlappingCallsBothComplete ==
    /\ [](\A c \in Calls :
            LET r == call[c]
            IN  Passes(r) =>
                    /\ initialState[c] = r.pre.order.state
                    /\ currentState[c] =
                            (IF r.outcome = "committed" THEN r.state ELSE r.pre.order.state)
                    /\ r.pc # "start" => r.outcome = "committed"
                    /\ ~DownstreamRaised(r) => r.err = NoErr /\ r.tpc # "threw"
                    /\ \A i \in DOMAIN r.log :
                            r.log[i].from = r.pre.order.state /\ r.log[i].to = r.state
                    /\ r.tpc = "returned" =>
                            Len(LogOf(r, {"createHistoryEntryForOrder"})) = 1)
    /\ [][/\ \A c \in Calls :
                (InFlight(call[c]) /\ call'[c].tpc = "returned") =>
                    order'.state = call[c].state
          /\ order'.state # order.state =>
                \E c \in Calls : InFlight(call[c]) /\ call'[c].tpc = "returned"]_vars

C19_Witness ==
    \E a, b \in Calls :
        /\ a # b
        /\ Passes(call[a]) /\ Passes(call[b])
        /\ call[a].pre.order.state = "AddingItems"
        /\ call[b].pre.order.state = "AddingItems"
        /\ call[a].state = "ArrangingPayment"
        /\ call[b].state = "Cancelled"
        /\ call[a].tpc = "returned" /\ call[b].tpc = "returned"
        /\ currentState[a] = "ArrangingPayment"
        /\ currentState[b] = "Cancelled"
        /\ order.state = "ArrangingPayment"
        /\ ~order.active

\* C20: every (fromState, toState) pair the engine passes to onTransitionEnd is
\* an edge of the graph, and every pair it passes to onError has fromState
\* equal to the state the call was checked against, for any interleaving of
\* transitionTo and jumpTo calls on one engine, also calls that overlap while a
\* guard is suspended.
C20_CallbacksSeeCheckedEdge ==
    \A c \in Calls :
        LET r == call[c]
        IN  r.op = "transitionTo" =>
                \A i \in DOMAIN r.log :
                    /\ r.log[i].ev = "onTransitionEnd" => r.log[i].to \in Dest(r.log[i].from)
                    /\ r.log[i].ev = "onError" => r.log[i].from = r.pre.cur

====
